---- MODULE Spec2Model ----
(***************************************************************************)
(* A model of src/src/ConeFrustum.js: the ConeFrustum class (constructor,  *)
(* fromCapsule, copy, clone, empty, getBoundingBox, equals) and            *)
(* Ray.prototype.intersectsConeFrustum with its closure scratch vectors.   *)
(*                                                                         *)
(* JavaScript numbers are modelled exactly: a number is a + b*sqrt(n) with *)
(* a, b rationals and n a square-free natural (n = 0 when b = 0), and the  *)
(* rationals carry the IEEE specials as p/0: 1/0 = Infinity,               *)
(* -1/0 = -Infinity, 0/0 = NaN.  Rounding and the sign of zero are not     *)
(* modelled.                                                               *)
(***************************************************************************)
EXTENDS Integers, Sequences, FiniteSets, TLC

(***************************************************************************)
(* Rationals <<p, q>> in lowest terms, q >= 0; q = 0 are the specials.     *)
(***************************************************************************)
RECURSIVE GCD(_, _)
GCD(x, y) == IF y = 0 THEN x ELSE GCD(y, x % y)

AbsI(x) == IF x < 0 THEN -x ELSE x

SgnI(x) == IF x < 0 THEN -1 ELSE IF x = 0 THEN 0 ELSE 1

RNorm(p, q) ==
    IF q = 0 THEN <<SgnI(p), 0>>
    ELSE LET g == GCD(AbsI(p), AbsI(q))
         IN  <<SgnI(q) * (p \div g), AbsI(q) \div g>>

RNaN == <<0, 0>>

\* p1/q1 + p2/q2 over the least common denominator, g = gcd(q1, q2).
RSum(x, y, g) ==
    RNorm(x[1] * (y[2] \div g) + y[1] * (x[2] \div g), (x[2] \div g) * y[2])

RAdd(x, y) ==
    IF x[2] = 1 /\ y[2] = 1 THEN <<x[1] + y[1], 1>>
    ELSE IF x[2] = 0 \/ y[2] = 0
    THEN IF x = RNaN \/ y = RNaN THEN RNaN
         ELSE IF x[2] = 0 /\ y[2] = 0
              THEN (IF x = y THEN x ELSE RNaN)
              ELSE IF x[2] = 0 THEN x ELSE y
    ELSE RSum(x, y, GCD(x[2], y[2]))

RNeg(x) == <<-x[1], x[2]>>

\* p1/q1 * p2/q2, cancelling g1 = gcd(p1, q2) and g2 = gcd(p2, q1) first.
RProduct(x, y, g1, g2) ==
    <<(x[1] \div g1) * (y[1] \div g2), (x[2] \div g2) * (y[2] \div g1)>>

RMul(x, y) ==
    IF x[2] = 1 /\ y[2] = 1 THEN <<x[1] * y[1], 1>>
    ELSE IF x[2] = 0 \/ y[2] = 0 \/ x[1] = 0 \/ y[1] = 0
    THEN RNorm(x[1] * y[1], x[2] * y[2])
    ELSE RProduct(x, y, GCD(AbsI(x[1]), y[2]), GCD(AbsI(y[1]), x[2]))

RInv(x) == RNorm(x[2], x[1])

RZero == <<0, 1>>

(***************************************************************************)
(* Numbers a + b*sqrt(n).                                                  *)
(***************************************************************************)
Mk(a, b, n) == [a |-> a, b |-> b, n |-> IF b = RZero THEN 0 ELSE n]

Num(i) == Mk(<<i, 1>>, RZero, 0)

Frac(p, q) == Mk(RNorm(p, q), RZero, 0)

NaN == Mk(RNaN, RZero, 0)

Infinity == Mk(<<1, 0>>, RZero, 0)

IsNaN(x) == x.a = RNaN

IsRational(x) == x.b = RZero

\* The radicand two numbers share (one square root is taken per call).
Rad(x, y) == IF x.n = 0 THEN y.n ELSE x.n

Neg(x) == [a |-> RNeg(x.a), b |-> RNeg(x.b), n |-> x.n]

Add(x, y) ==
    IF IsRational(x) /\ IsRational(y)
    THEN [a |-> RAdd(x.a, y.a), b |-> RZero, n |-> 0]
    ELSE Mk(RAdd(x.a, y.a), RAdd(x.b, y.b), Rad(x, y))

Sub(x, y) == Add(x, Neg(y))

Mul(x, y) ==
    IF IsRational(x) /\ IsRational(y)
    THEN [a |-> RMul(x.a, y.a), b |-> RZero, n |-> 0]
    ELSE Mk(RAdd(RMul(x.a, y.a), RMul(RMul(x.b, y.b), <<Rad(x, y), 1>>)),
            RAdd(RMul(x.a, y.b), RMul(x.b, y.a)), Rad(x, y))

\* 1 / y: for a + b*sqrt(n) with b # 0, (a - b*sqrt(n)) / (a*a - b*b*n).
Inv(y) ==
    IF IsRational(y) THEN [a |-> RInv(y.a), b |-> RZero, n |-> 0]
    ELSE LET norm == RInv(RAdd(RMul(y.a, y.a),
                               RNeg(RMul(RMul(y.b, y.b), <<y.n, 1>>))))
         IN  Mk(RMul(y.a, norm), RNeg(RMul(y.b, norm)), y.n)

Div(x, y) == Mul(x, Inv(y))

\* (p/q)^2 > n
RatioAbove(c, n) == c[1] * c[1] > n * c[2] * c[2]

\* x > 0 (false for NaN): the sign of a + b*sqrt(n) when a and b differ in
\* sign is that of a when (a/b)^2 > n, and that of b otherwise.
Pos(x) ==
    IF IsRational(x) THEN x.a[1] > 0
    ELSE IF x.a[1] >= 0 /\ x.b[1] > 0 THEN TRUE
    ELSE IF x.a[1] <= 0 /\ x.b[1] < 0 THEN FALSE
    ELSE IF x.a[1] > 0 THEN RatioAbove(RMul(x.a, RInv(x.b)), x.n)
    ELSE ~RatioAbove(RMul(x.a, RInv(x.b)), x.n)

Gt(x, y) == Pos(Sub(x, y))

Lt(x, y) == Pos(Sub(y, x))

\* JavaScript ===, !== on numbers: NaN equals nothing.
StrictEq(x, y) == x = y /\ ~IsNaN(x)

Ge(x, y) == StrictEq(x, y) \/ Gt(x, y)

Le(x, y) == StrictEq(x, y) \/ Lt(x, y)

\* The integer square root of m, between lo and hi.
RECURSIVE ISqrt(_, _, _)
ISqrt(m, lo, hi) ==
    IF lo >= hi THEN lo
    ELSE LET mid == (lo + hi + 1) \div 2
         IN  IF mid <= m \div mid THEN ISqrt(m, mid, hi) ELSE ISqrt(m, lo, mid - 1)

\* The largest t with t*t dividing m (m > 0), by trial division from s on.
RECURSIVE SquarePart(_, _)
SquarePart(m, s) ==
    IF s * s * s > m
    THEN LET t == ISqrt(m, 1, m) IN IF t * t = m THEN t ELSE 1
    ELSE IF m % (s * s) = 0 THEN s * SquarePart(m \div (s * s), s)
    ELSE IF m % s = 0 THEN SquarePart(m \div s, s + 1)
    ELSE SquarePart(m, s + 1)

\* Math.sqrt of a rational p/q in lowest terms: with p = sp*sp*np and
\* q = sq*sq*nq, sqrt(p/q) = sp * sqrt(np*nq) / (sq*nq).
Sqrt(x) ==
    IF IsNaN(x) \/ x.a[1] < 0 THEN NaN
    ELSE IF x.a[2] = 0 THEN x
    ELSE IF x.a[1] = 0 THEN Num(0)
    ELSE LET sp == SquarePart(x.a[1], 2)
             sq == SquarePart(x.a[2], 2)
             np == x.a[1] \div (sp * sp)
             nq == x.a[2] \div (sq * sq)
         IN  IF np * nq = 1 THEN Mk(RNorm(sp, sq), RZero, 0)
             ELSE Mk(RZero, RNorm(sp, sq * nq), np * nq)

\* Math.min, Math.max: NaN when either argument is NaN.
MathMin(x, y) == IF IsNaN(x) \/ IsNaN(y) THEN NaN ELSE IF Lt(y, x) THEN y ELSE x

MathMax(x, y) == IF IsNaN(x) \/ IsNaN(y) THEN NaN ELSE IF Gt(y, x) THEN y ELSE x

(***************************************************************************)
(* three.js Vector3 and Box3, by value: a vector is <<x, y, z>>, a box is  *)
(* [min, max].                                                             *)
(***************************************************************************)
V3(x, y, z) == <<Num(x), Num(y), Num(z)>>

subVectors(a, b) == <<Sub(a[1], b[1]), Sub(a[2], b[2]), Sub(a[3], b[3])>>

addVectors(a, b) == <<Add(a[1], b[1]), Add(a[2], b[2]), Add(a[3], b[3])>>

dot(a, b) == Add(Add(Mul(a[1], b[1]), Mul(a[2], b[2])), Mul(a[3], b[3]))

multiplyScalar(v, s) == <<Mul(v[1], s), Mul(v[2], s), Mul(v[3], s)>>

\* three.js: multiplyScalar( 1 / scalar ).
divideScalar(v, s) == multiplyScalar(v, Inv(s))

addScaledVector(v, w, s) == addVectors(v, multiplyScalar(w, s))

length(v) == Sqrt(dot(v, v))

\* x || y on numbers: 0 and NaN are falsy.
OrElse(x, y) == IF x = Num(0) \/ IsNaN(x) THEN y ELSE x

\* three.js: divideScalar( this.length() || 1 ).
normalize(v) == divideScalar(v, OrElse(length(v), Num(1)))

equalsV(a, b) ==
    StrictEq(a[1], b[1]) /\ StrictEq(a[2], b[2]) /\ StrictEq(a[3], b[3])

minV(a, b) == <<MathMin(a[1], b[1]), MathMin(a[2], b[2]), MathMin(a[3], b[3])>>

maxV(a, b) == <<MathMax(a[1], b[1]), MathMax(a[2], b[2]), MathMax(a[3], b[3])>>

Box3(lo, hi) == [min |-> lo, max |-> hi]

union(b1, b2) == Box3(minV(b1.min, b2.min), maxV(b1.max, b2.max))

(***************************************************************************)
(* The heap.  vec is the sequence of Vector3 objects (a reference is an    *)
(* index, 0 is null/undefined), fru the sequence of ConeFrustum objects    *)
(* [base, axis, height, radius0, radius1] with base and axis references.   *)
(* An optional number argument is <<>> when omitted and <<x>> when given.  *)
(* Objects that are unreachable when a method returns are not kept.        *)
(***************************************************************************)
\* box is the caller's Box3 (the target of getBoundingBox), ray the Ray the
\* last intersection was asked of, ret the last call and what it returned.
\* History: made[f] is how frustum f got its fields, mine the vectors the
\* caller allocated, held the first point an intersection returned, with the
\* coordinates it had then.
\* calls counts the calls made so far.
VARIABLES vec, fru, box, ray, ret, made, mine, held, calls

vars == <<vec, fru, box, ray, ret, made, mine, held, calls>>

\* The closure's scratch vectors, allocated once when the module loads.
D == 1

target2 == 2

u == 3

\* arg || dflt for an optional number argument.
Default(arg, dflt) == IF arg = <<>> THEN dflt ELSE OrElse(arg[1], dflt)

\* new ConeFrustum( base, axis, height, radius0, radius1 )
ConeFrustum(vec_, fru_, base, axis, height, radius0, radius1) ==
    LET vb == IF base = 0 THEN Append(vec_, V3(0, 0, 0)) ELSE vec_
        b  == IF base = 0 THEN Len(vb) ELSE base
        va == IF axis = 0 THEN Append(vb, V3(0, 1, 0)) ELSE vb
        a  == IF axis = 0 THEN Len(va) ELSE axis
        this == [base    |-> b,
                 axis    |-> a,
                 height  |-> Default(height, Num(1)),
                 radius0 |-> Default(radius0, Num(0)),
                 radius1 |-> Default(radius1, Num(0))]
    IN  [vec |-> [va EXCEPT ![a] = normalize(va[a])],
         fru |-> Append(fru_, this),
         ref |-> Len(fru_) + 1]

\* ConeFrustum.fromCapsule( center0, radius0, center1, radius1 )
fromCapsule(vec_, fru_, center0, radius0, center1, radius1) ==
    LET axis  == subVectors(vec_[center1], vec_[center0])
        vc    == Append(vec_, normalize(axis))
    IN  ConeFrustum(vc, fru_, center0, Len(vc), <<length(axis)>>,
                    <<radius0>>, <<radius1>>)

\* this.copy( frustum ); returns nothing.
copy(vec_, fru_, this, frustum) ==
    LET vb == Append(vec_, vec_[fru_[frustum].base])
        va == Append(vb, vec_[fru_[frustum].axis])
    IN  [vec |-> va,
         fru |-> [fru_ EXCEPT ![this] = [base    |-> Len(vb),
                                         axis    |-> Len(va),
                                         height  |-> fru_[frustum].height,
                                         radius0 |-> fru_[frustum].radius0,
                                         radius1 |-> fru_[frustum].radius1]],
         ref |-> 0]

\* this.clone(): return new ConeFrustum().copy( this )
clone(vec_, fru_, this) ==
    LET n == ConeFrustum(vec_, fru_, 0, 0, <<>>, <<>>, <<>>)
    IN  copy(n.vec, n.fru, n.ref, this)

\* this.empty()
empty(f) ==
    StrictEq(f.height, Num(0))
        \/ (StrictEq(f.radius0, Num(0)) /\ StrictEq(f.radius1, Num(0)))

\* this.getBoundingBox( target ): the box it returns.
getBoundingBox(vec_, f) ==
    LET axis == vec_[f.axis]
        c    == vec_[f.base]
        d0   == <<Sqrt(Mul(Mul(Num(1), axis[1]), axis[1])),
                  Sqrt(Mul(Mul(Num(1), axis[2]), axis[2])),
                  Sqrt(Mul(Mul(Num(1), axis[3]), axis[3]))>>
        d1   == multiplyScalar(d0, f.radius0)
        box1 == Box3(subVectors(c, d1), addVectors(c, d1))
        d2   == multiplyScalar(divideScalar(d1, f.radius0), f.radius1)
        cc   == addScaledVector(c, axis, f.height)
        box2 == Box3(subVectors(cc, d2), addVectors(cc, d2))
    IN  union(box1, box2)

\* this.equals( frustum )
equals(vec_, this, frustum) ==
    /\ equalsV(vec_[this.base], vec_[frustum.base])
    /\ equalsV(vec_[this.axis], vec_[frustum.axis])
    /\ StrictEq(this.height, frustum.height)
    /\ StrictEq(this.radius0, frustum.radius0)
    /\ StrictEq(this.radius1, frustum.radius1)

(***************************************************************************)
(* Ray.prototype.intersectsConeFrustum.  A ray is [origin, direction], by  *)
(* value: the routine only reads it.                                       *)
(***************************************************************************)
\* Each step of the routine is an operator of the values computed before it.
\* r and R, from deltaR = radius1 - radius0.
slope(f, deltaR) ==
    [r |-> Add(Num(1), Mul(Div(deltaR, f.height), Div(deltaR, f.height))),
     R |-> Div(Mul(f.radius0, deltaR), f.height)]

\* The dot products, from D = origin - base.
dots(ray_, axis, Dv) ==
    [D   |-> Dv,
     DdA |-> dot(Dv, axis),
     DdD |-> dot(Dv, Dv),
     VdA |-> dot(ray_.direction, axis),
     VdD |-> dot(ray_.direction, Dv),
     VdV |-> dot(ray_.direction, ray_.direction)]

\* c0, c1, c2
quadratic(radius0, s, p) ==
    [D  |-> p.D,
     c0 |-> Sub(Add(Add(Mul(radius0, radius0), Mul(Mul(Num(2), s.R), p.DdA)),
                    Mul(Mul(s.r, p.DdA), p.DdA)), p.DdD),
     c1 |-> Sub(Add(Mul(s.R, p.VdA), Mul(Mul(s.r, p.DdA), p.VdA)), p.VdD),
     c2 |-> Sub(Mul(Mul(s.r, p.VdA), p.VdA), p.VdV)]

\* The quadratic's coefficients and the vector D = origin - base.
coefficients(ray_, base, axis, f) ==
    quadratic(f.radius0,
              slope(f, Sub(f.radius1, f.radius0)),
              dots(ray_, axis, subVectors(ray_.origin, base)))

discriminant(q) == Sub(Mul(q.c1, q.c1), Mul(q.c2, q.c0))

\* accepts with the far cap left out: d < frustum.height.
acceptsBelowTop(t, d, height) == Ge(t, Num(0)) /\ Ge(d, Num(0)) /\ Lt(d, height)

\* t >= 0 && d >= 0 && d <= frustum.height
accepts(t, d, height) == Ge(t, Num(0)) /\ Ge(d, Num(0)) /\ Le(d, height)

\* acceptsSecond with the comparison of the roots turned round: t0 < t1.
acceptsSecondIfLarger(t0, t1, quantity, d, height) ==
    Ge(t1, Num(0)) /\ (quantity = 0 \/ Lt(t0, t1)) /\ Ge(d, Num(0)) /\ Le(d, height)

\* t1 >= 0 && (quantity === 0 || t0 > t1) && d >= 0 && d <= frustum.height
acceptsSecond(t0, t1, quantity, d, height) ==
    Ge(t1, Num(0)) /\ (quantity = 0 \/ Gt(t0, t1)) /\ Ge(d, Num(0)) /\ Le(d, height)

\* The root of the one-root branch, and the two of the two-root branch.
doubleRoot(q) == Div(Neg(q.c1), q.c2)

firstRoot(q, root) == Div(Sub(Neg(q.c1), root), q.c2)

secondRoot(q, root) == Div(Add(Neg(q.c1), root), q.c2)

\* The root of the linear branch.
linearRoot(q) == Div(Mul(Num(-2), q.c0), q.c1)

\* u.copy( D ); u.addScaledVector( this.direction, t )
along(q, ray_, t) == addScaledVector(q.D, ray_.direction, t)

\* target2.addVectors( frustum.base, u ); target.copy( target2 ); return result
hit(v, base, uv, target, result) ==
    [vec |-> [[v EXCEPT ![u] = uv, ![target2] = addVectors(base, uv)]
                 EXCEPT ![target] = addVectors(base, uv)],
     ref |-> result]

\* No return in the branch: u is written, null is returned.
miss(v, uv) == [vec |-> [v EXCEPT ![u] = uv], ref |-> 0]

\* One candidate root t with u = D + t * direction.
oneRoot(v, f, base, axis, target, t, uv, result) ==
    IF accepts(t, dot(axis, uv), f.height)
    THEN hit(v, base, uv, target, result)
    ELSE miss(v, uv)

\* The two-root branch after both candidates are computed.
twoRoots(v, f, base, target, u0, u1, ok0, ok1) ==
    IF ok1 THEN hit(v, base, u1, target, target2)
    ELSE IF ok0
    THEN [vec |-> [[v EXCEPT ![u] = u1, ![target2] = addVectors(base, u0)]
                      EXCEPT ![target] = addVectors(base, u0)],
          ref |-> target2]
    ELSE miss(v, u1)

secondAccepted(f, axis, t0, t1, u1, ok0) ==
    acceptsSecond(t0, t1, IF ok0 THEN 1 ELSE 0, dot(axis, u1), f.height)

bothRoots(v, ray_, f, base, axis, target, q, t0, t1, u0, u1) ==
    twoRoots(v, f, base, target, u0, u1,
             accepts(t0, dot(axis, u0), f.height),
             secondAccepted(f, axis, t0, t1, u1,
                            accepts(t0, dot(axis, u0), f.height)))

branches(v, ray_, f, base, axis, target, q, discr, t, t0, t1) ==
    IF ~StrictEq(q.c2, Num(0))
    THEN IF Lt(discr, Num(0)) THEN [vec |-> v, ref |-> 0]
         ELSE IF StrictEq(discr, Num(0))
         THEN oneRoot(v, f, base, axis, target, t, along(q, ray_, t), target2)
         ELSE bothRoots(v, ray_, f, base, axis, target, q, t0, t1,
                        along(q, ray_, t0), along(q, ray_, t1))
    ELSE IF ~StrictEq(q.c1, Num(0))
    THEN oneRoot(v, f, base, axis, target, t, along(q, ray_, t), target)
    ELSE [vec |-> v, ref |-> 0]

solve(vec_, ray_, f, base, axis, target, q, discr) ==
    branches([vec_ EXCEPT ![D] = q.D], ray_, f, base, axis, target, q, discr,
             IF StrictEq(q.c2, Num(0)) THEN linearRoot(q) ELSE doubleRoot(q),
             firstRoot(q, Sqrt(discr)), secondRoot(q, Sqrt(discr)))

withCoefficients(vec_, ray_, f, base, axis, target, q) ==
    solve(vec_, ray_, f, base, axis, target, q, discriminant(q))

\* The call: the heap it leaves and the reference it returns (0 is null).
intersectsConeFrustum(vec_, ray_, f, targetArg) ==
    withCoefficients(vec_, ray_, f, vec_[f.base], vec_[f.axis],
                     IF targetArg = 0 THEN target2 ELSE targetArg,
                     coefficients(ray_, vec_[f.base], vec_[f.axis], f))

(***************************************************************************)
(* Bounds and input sets.                                                  *)
(***************************************************************************)
MaxCalls == 4

MaxVecs == 9

MaxFrusta == 2

MaxCoord == 1

MaxHeight == 2

MaxRadius == 2

\* Vectors the caller makes in Spec.
CallerVectors == {V3(0, 0, 0), V3(0, 2, 0)}

\* (height, radius0, radius1) arguments the caller constructs with in Spec.
CallerScalars ==
    {<<<<>>, <<>>, <<>>>>,
     <<<<Num(0)>>, <<Num(1)>>, <<Num(1)>>>>,
     <<<<Num(2)>>, <<Num(0)>>, <<Num(0)>>>>,
     <<<<Num(2)>>, <<Num(1)>>, <<Num(0)>>>>,
     <<<<Num(2)>>, <<Num(1)>>, <<Num(1)>>>>}

CallerRadii == {Num(0), Num(1)}

\* Rays the caller casts in Spec.
CallerRays ==
    {[origin |-> V3(0, 1, 0), direction |-> V3(1, 0, 0)],
     [origin |-> V3(0, 1, 0), direction |-> V3(-1, 0, 0)],
     [origin |-> V3(0, -1, 0), direction |-> V3(0, 1, 0)]}

\* The inputs of SpecIntersect: ray origins on a grid of the plane z = 0, the
\* directions of the unit cube with z >= 0 (the frustums are symmetric in z),
\* and frustums of integer sizes on two frames (base, axis before it is
\* normalized): the origin with +y, and (1, 0, 0) with (3, 4, 0).
Origins == {V3(x, y, 0) : x, y \in (-MaxCoord) .. MaxCoord}

Directions == {V3(x, y, z) : x, y \in {-1, 0, 1}, z \in {0, 1}} \ {V3(0, 0, 0)}

Frames == {<<V3(0, 0, 0), V3(0, 1, 0)>>, <<V3(1, 0, 0), V3(3, 4, 0)>>}

Heights == {<<Num(h)>> : h \in 1 .. MaxHeight}

Radii == {<<Num(r)>> : r \in 0 .. MaxRadius}

(***************************************************************************)
(* The state after the module has loaded, and the calls.                   *)
(***************************************************************************)
Box == Box3(<<Infinity, Infinity, Infinity>>,
            <<Neg(Infinity), Neg(Infinity), Neg(Infinity)>>)

Ret(op, args, kind, ref, bool, bx) ==
    [op |-> op, args |-> args, kind |-> kind, ref |-> ref, bool |-> bool, box |-> bx]

NoRay == [origin |-> V3(0, 0, 0), direction |-> V3(0, 1, 0)]

NotHeld == [ref |-> 0, at |-> V3(0, 0, 0)]

Made(how, from, height, radius0, radius1) ==
    [how |-> how, from |-> from, height |-> height,
     radius0 |-> radius0, radius1 |-> radius1]

\* Vectors a caller can hold: all but the closure's own.
Reachable == (1 .. Len(vec)) \ {D, target2, u}

Init ==
    /\ vec = <<V3(0, 0, 0), V3(0, 0, 0), V3(0, 0, 0)>>
    /\ fru = <<>>
    /\ box = Box
    /\ ray = NoRay
    /\ ret = Ret("load", <<>>, "undefined", 0, FALSE, Box)
    /\ made = <<>>
    /\ mine = {}
    /\ held = NotHeld
    /\ calls = 0

\* One more call, within the bound.
Called == calls < MaxCalls /\ calls' = calls + 1

\* The caller: new Vector3( x, y, z )
NewVector3(v) ==
    /\ Called
    /\ Len(vec) < MaxVecs
    /\ vec' = Append(vec, v)
    /\ mine' = mine \cup {Len(vec) + 1}
    /\ ret' = Ret("Vector3", <<>>, "vector", Len(vec) + 1, FALSE, Box)
    /\ UNCHANGED <<fru, box, ray, made, held>>

\* The caller: v.copy( w ) on a vector it holds
SetVector3(i, v) ==
    /\ Called
    /\ i \in Reachable
    /\ vec[i] # v
    /\ vec' = [vec EXCEPT ![i] = v]
    /\ ret' = Ret("set", <<i>>, "vector", i, FALSE, Box)
    /\ UNCHANGED <<fru, box, ray, made, mine, held>>

New(base, axis, height, radius0, radius1) ==
    /\ Called
    /\ base \in mine \cup {0}
    /\ axis \in mine \cup {0}
    /\ Len(fru) < MaxFrusta
    /\ \E n \in {ConeFrustum(vec, fru, base, axis, height, radius0, radius1)} :
           /\ Len(n.vec) <= MaxVecs
           /\ vec' = n.vec
           /\ fru' = n.fru
           /\ made' = Append(made, Made("new", 0, height, radius0, radius1))
           /\ ret' = Ret("ConeFrustum", <<base, axis>>, "frustum", n.ref, FALSE, Box)
    /\ UNCHANGED <<box, ray, mine, held>>

FromCapsule(center0, radius0, center1, radius1) ==
    /\ Called
    /\ center0 \in mine
    /\ center1 \in mine
    /\ Len(fru) < MaxFrusta
    /\ \E n \in {fromCapsule(vec, fru, center0, radius0, center1, radius1)} :
           /\ Len(n.vec) <= MaxVecs
           /\ vec' = n.vec
           /\ fru' = n.fru
           /\ made' = Append(made, Made("fromCapsule", 0, <<>>, <<radius0>>, <<radius1>>))
           /\ ret' = Ret("fromCapsule", <<center0, center1>>, "frustum", n.ref, FALSE, Box)
    /\ UNCHANGED <<box, ray, mine, held>>

Copy(this, frustum) ==
    /\ Called
    /\ this \in 1 .. Len(fru)
    /\ frustum \in 1 .. Len(fru)
    /\ \E n \in {copy(vec, fru, this, frustum)} :
           /\ Len(n.vec) <= MaxVecs
           /\ vec' = n.vec
           /\ fru' = n.fru
           /\ made' = [made EXCEPT ![this] = Made("copy", frustum, <<>>, <<>>, <<>>)]
           /\ ret' = Ret("copy", <<this, frustum>>, "undefined", n.ref, FALSE, Box)
    /\ UNCHANGED <<box, ray, mine, held>>

Clone(this) ==
    /\ Called
    /\ this \in 1 .. Len(fru)
    /\ \E n \in {clone(vec, fru, this)} :
           IF n.ref = 0
           THEN /\ vec' = SubSeq(n.vec, 1, Len(vec))
                /\ fru' = SubSeq(n.fru, 1, Len(fru))
                /\ made' = made
                /\ ret' = Ret("clone", <<this>>, "undefined", 0, FALSE, Box)
           ELSE /\ Len(n.vec) <= MaxVecs
                /\ Len(n.fru) <= MaxFrusta
                /\ vec' = n.vec
                /\ fru' = n.fru
                /\ made' = Append(made, Made("copy", this, <<>>, <<>>, <<>>))
                /\ ret' = Ret("clone", <<this>>, "frustum", n.ref, FALSE, Box)
    /\ UNCHANGED <<box, ray, mine, held>>

Empty(this) ==
    /\ Called
    /\ this \in 1 .. Len(fru)
    /\ ret' = Ret("empty", <<this>>, "boolean", 0, empty(fru[this]), Box)
    /\ UNCHANGED <<vec, fru, box, ray, made, mine, held>>

Equals(this, frustum) ==
    /\ Called
    /\ this \in 1 .. Len(fru)
    /\ frustum \in 1 .. Len(fru)
    /\ ret' = Ret("equals", <<this, frustum>>, "boolean", 0,
                  equals(vec, fru[this], fru[frustum]), Box)
    /\ UNCHANGED <<vec, fru, box, ray, made, mine, held>>

\* target is 1 when the caller passes its Box3, 0 when it passes none.
GetBoundingBox(this, target) ==
    /\ Called
    /\ this \in 1 .. Len(fru)
    /\ \E box1 \in {getBoundingBox(vec, fru[this])} :
           /\ box' = IF target # 0 THEN box1 ELSE box
           /\ ret' = Ret("getBoundingBox", <<this, target>>, "box", 0, FALSE, box1)
    /\ UNCHANGED <<vec, fru, ray, made, mine, held>>

\* What an intersection call leaves: n is the heap and the reference returned.
Returned(ray_, frustum, target, n) ==
    /\ vec' = n.vec
    /\ ray' = ray_
    /\ ret' = Ret("intersectsConeFrustum", <<frustum, target>>,
                  IF n.ref = 0 THEN "null" ELSE "vector", n.ref, FALSE, Box)
    /\ held' = IF held.ref = 0 /\ n.ref # 0
               THEN [ref |-> n.ref, at |-> n.vec[n.ref]]
               ELSE held

Intersects(ray_, frustum, target) ==
    /\ Called
    /\ frustum \in 1 .. Len(fru)
    /\ target \in mine \cup {0}
    /\ \E n \in {intersectsConeFrustum(vec, ray_, fru[frustum], target)} :
           Returned(ray_, frustum, target, n)
    /\ UNCHANGED <<fru, box, made, mine>>

Next ==
    \/ \E v \in CallerVectors : NewVector3(v)
    \/ \E i \in Reachable, v \in CallerVectors : SetVector3(i, v)
    \/ \E b, a \in mine \cup {0}, s \in CallerScalars : New(b, a, s[1], s[2], s[3])
    \/ \E c0, c1 \in mine, r0, r1 \in CallerRadii : FromCapsule(c0, r0, c1, r1)
    \/ \E a, b \in 1 .. Len(fru) : Copy(a, b)
    \/ \E f \in 1 .. Len(fru) : Clone(f)
    \/ \E f \in 1 .. Len(fru) : Empty(f)
    \/ \E a, b \in 1 .. Len(fru) : Equals(a, b)
    \/ \E f \in 1 .. Len(fru), t \in {0, 1} : GetBoundingBox(f, t)
    \/ \E rr \in CallerRays, f \in 1 .. Len(fru), t \in mine \cup {0} :
          Intersects(rr, f, t)

Spec == Init /\ [][Next]_vars

(***************************************************************************)
(* One intersection, over a wider set of rays and frustums: the caller has *)
(* made the base and axis vectors (4, 5) and a target vector (6), built    *)
(* the frustum from them and set up the ray; it then asks for the          *)
(* intersection, with or without the target.                               *)
(***************************************************************************)
InitIntersect ==
    \E fr \in Frames, h \in Heights, r0, r1 \in Radii,
       o \in Origins, dir \in Directions :
        \E n \in {ConeFrustum(<<V3(0, 0, 0), V3(0, 0, 0), V3(0, 0, 0), fr[1],
                                fr[2], V3(0, 0, 0)>>, <<>>, 4, 5, h, r0, r1)} :
            /\ vec = n.vec
            /\ fru = n.fru
            /\ box = Box
            /\ ray = [origin |-> o, direction |-> dir]
            /\ ret = Ret("ConeFrustum", <<4, 5>>, "frustum", n.ref, FALSE, Box)
            /\ made = <<Made("new", 0, h, r0, r1)>>
            /\ mine = {4, 5, 6}
            /\ held = NotHeld
            /\ calls = MaxCalls - 1

NextIntersect == \E t \in {0, 6} : Intersects(ray, 1, t)

SpecIntersect == InitIntersect /\ [][NextIntersect]_vars

(***************************************************************************)
(* The claims.                                                             *)
(***************************************************************************)
AfterIntersect == ret.op = "intersectsConeFrustum"

TheFrustum == fru[ret.args[1]]

TheBase == vec[TheFrustum.base]

TheAxis == vec[TheFrustum.axis]

TheCoefficients == coefficients(ray, TheBase, TheAxis, TheFrustum)

cross(a, b) ==
    <<Sub(Mul(a[2], b[3]), Mul(a[3], b[2])),
      Sub(Mul(a[3], b[1]), Mul(a[1], b[3])),
      Sub(Mul(a[1], b[2]), Mul(a[2], b[1]))>>

\* P = origin + t * direction for some t >= 0.
OnRay(P, w) ==
    /\ cross(w, ray.direction) = V3(0, 0, 0)
    /\ Ge(dot(w, ray.direction), Num(0))

\* P, at offset w from the base and axial coordinate d, is on the lateral
\* surface between the caps.
OnSurface(f, w, d) ==
    /\ Ge(d, Num(0))
    /\ Le(d, f.height)
    /\ Sub(dot(w, w), Mul(d, d))
         = Mul(Add(f.radius0, Div(Mul(Sub(f.radius1, f.radius0), d), f.height)),
               Add(f.radius0, Div(Mul(Sub(f.radius1, f.radius0), d), f.height)))

ReturnedOnSurface(P) ==
    /\ OnRay(P, subVectors(P, ray.origin))
    /\ OnSurface(TheFrustum, subVectors(P, TheBase),
                 dot(TheAxis, subVectors(P, TheBase)))

\* C1: a returned point lies on the ray at some t >= 0, has its axial
\* coordinate in [0, height] and lies on the lateral surface, in every branch.
C1_ReturnedPointOnSurface ==
    (AfterIntersect /\ ret.ref # 0) => ReturnedOnSurface(vec[ret.ref])

\* The same, in the branches with c2 # 0 only.
C1_QuadraticBranchesOnSurface ==
    (AfterIntersect /\ ret.ref # 0 /\ TheCoefficients.c2 # Num(0))
        => ReturnedOnSurface(vec[ret.ref])

\* The point of the ray at parameter t, and whether t is a valid root: t >= 0
\* and the point's axial coordinate is in [0, height].
PointAt(t) == addScaledVector(ray.origin, ray.direction, t)

ValidRoot(t) ==
    /\ Ge(t, Num(0))
    /\ \A d \in {dot(TheAxis, subVectors(PointAt(t), TheBase))} :
           Ge(d, Num(0)) /\ Le(d, TheFrustum.height)

\* The two-root branch: c2 != 0 and a positive discriminant.
HasTwoRoots(q) == q.c2 # Num(0) /\ Pos(discriminant(q))

Nearest(t0, t1, v0, v1) ==
    /\ (ret.ref = 0) <=> (~v0 /\ ~v1)
    /\ (v0 /\ (~v1 \/ Lt(t0, t1))) => (ret.ref # 0 /\ vec[ret.ref] = PointAt(t0))
    /\ (v1 /\ (~v0 \/ Lt(t1, t0))) => (ret.ref # 0 /\ vec[ret.ref] = PointAt(t1))

NearestOf(t0, t1) ==
    \A v0 \in {ValidRoot(t0)}, v1 \in {ValidRoot(t1)} : Nearest(t0, t1, v0, v1)

NearestAmong(q, root) ==
    \A t0 \in {firstRoot(q, root)}, t1 \in {secondRoot(q, root)} : NearestOf(t0, t1)

\* C2: with two roots, the call returns the point of the smallest valid root
\* among t0 and t1, whichever of them is larger, and null exactly when neither
\* is valid.
C2_NearestValidRoot ==
    AfterIntersect =>
        \A q \in {TheCoefficients} :
            HasTwoRoots(q) => \A root \in {Sqrt(discriminant(q))} : NearestAmong(q, root)

BothValidSecondNearer(t0, t1) ==
    /\ Gt(t0, t1)
    /\ ValidRoot(t0)
    /\ ValidRoot(t1)
    /\ ret.ref # 0
    /\ vec[ret.ref] = PointAt(t1)

SecondNearerAmong(q, root) ==
    \E t0 \in {firstRoot(q, root)}, t1 \in {secondRoot(q, root)} :
        BothValidSecondNearer(t0, t1)

\* Both roots are valid, t0 > t1, and the point of t1 was returned.
C2_SecondRootNearer ==
    /\ AfterIntersect
    /\ \E q \in {TheCoefficients} :
           HasTwoRoots(q) /\ \E root \in {Sqrt(discriminant(q))} : SecondNearerAmong(q, root)

C8Input ==
    /\ ray = [origin |-> V3(0, -1, 0), direction |-> V3(0, 1, 0)]
    /\ TheBase = V3(0, 0, 0)
    /\ TheAxis = V3(0, 1, 0)
    /\ TheFrustum.height = Num(2)
    /\ TheFrustum.radius0 = Num(1)
    /\ TheFrustum.radius1 = Num(0)

\* C8 as amended: for the cone with base (0,0,0), axis (0,1,0), height 2,
\* radius0 1, radius1 0 and the ray from (0,-1,0) along (0,1,0), the call
\* returns the apex (0,2,0).
C8_AxisRayHitsApex ==
    (AfterIntersect /\ C8Input) => (ret.ref # 0 /\ vec[ret.ref] = V3(0, 2, 0))

\* C8 as stated: for that cone and ray the call returns null.
C8_AxisRayReturnsNull == (AfterIntersect /\ C8Input) => ret.ref = 0

\* The call of C8 has been made and has returned a point.
C8_AxisRayCast == AfterIntersect /\ C8Input /\ ret.kind = "vector"

\* C3: clone() returns a new frustum G, distinct from F, with F.equals(G), whose
\* base and axis are vectors of its own (so that mutating them leaves F alone).
C3_CloneIsEqualIndependentCopy ==
    ret.op = "clone" =>
        /\ ret.kind = "frustum"
        /\ ret.ref # ret.args[1]
        /\ equals(vec, fru[ret.args[1]], fru[ret.ref])
        /\ {fru[ret.ref].base, fru[ret.ref].axis}
              \cap {fru[ret.args[1]].base, fru[ret.args[1]].axis} = {}

\* The value an optional argument stands for: the default only when omitted.
Given(arg, dflt) == IF arg = <<>> THEN dflt ELSE arg[1]

DegenerateSizes(m) ==
    \/ Given(m.height, Num(1)) = Num(0)
    \/ (Given(m.radius0, Num(0)) = Num(0) /\ Given(m.radius1, Num(0)) = Num(0))

\* C4: for a frustum constructed with height, radius0 and radius1, empty() is
\* true iff height = 0 or both radii are 0.
C4_EmptyIffDegenerate ==
    (ret.op = "empty" /\ made[ret.args[1]].how = "new")
        => (ret.bool <=> DegenerateSizes(made[ret.args[1]]))

CapsuleFields(f, m, c0, c1) ==
    /\ vec[f.base] = c0
    /\ f.height = length(subVectors(c1, c0))
    /\ vec[f.axis] = normalize(subVectors(c1, c0))
    /\ f.radius0 = m.radius0[1]
    /\ f.radius1 = m.radius1[1]

\* C5: fromCapsule(c0, r0, c1, r1) yields base = c0, height = |c1 - c0|,
\* axis = normalize(c1 - c0), radius0 = r0 and radius1 = r1.
C5_FromCapsuleFields ==
    ret.op = "fromCapsule"
        => CapsuleFields(fru[ret.ref], made[ret.ref], vec[ret.args[1]], vec[ret.args[2]])

AbsN(x) == IF Lt(x, Num(0)) THEN Neg(x) ELSE x

Least(x, y) == IF Lt(y, x) THEN y ELSE x

Greatest(x, y) == IF Gt(y, x) THEN y ELSE x

\* The box centred on c with half-extents radius * (|axis.x|, |axis.y|, |axis.z|).
CapBox(c, axis, radius) ==
    [min |-> <<Sub(c[1], Mul(radius, AbsN(axis[1]))),
               Sub(c[2], Mul(radius, AbsN(axis[2]))),
               Sub(c[3], Mul(radius, AbsN(axis[3])))>>,
     max |-> <<Add(c[1], Mul(radius, AbsN(axis[1]))),
               Add(c[2], Mul(radius, AbsN(axis[2]))),
               Add(c[3], Mul(radius, AbsN(axis[3])))>>]

BoxUnion(b1, b2) ==
    [min |-> <<Least(b1.min[1], b2.min[1]), Least(b1.min[2], b2.min[2]),
               Least(b1.min[3], b2.min[3])>>,
     max |-> <<Greatest(b1.max[1], b2.max[1]), Greatest(b1.max[2], b2.max[2]),
               Greatest(b1.max[3], b2.max[3])>>]

\* The centre of the radius1 cap: base + axis * height.
Top(f) == addVectors(vec[f.base], multiplyScalar(vec[f.axis], f.height))

CapBoxes(f) ==
    BoxUnion(CapBox(vec[f.base], vec[f.axis], f.radius0),
             CapBox(Top(f), vec[f.axis], f.radius1))

\* C6: getBoundingBox returns the union of the two cap boxes, for every
\* frustum, and a target that is supplied holds that box afterwards.
C6_BoundingBoxIsUnionOfCapBoxes ==
    ret.op = "getBoundingBox" =>
        /\ ret.box = CapBoxes(fru[ret.args[1]])
        /\ (ret.args[2] # 0 => box = ret.box)

AxisAligned(axis) ==
    axis \in {V3(1, 0, 0), V3(-1, 0, 0), V3(0, 1, 0), V3(0, -1, 0),
              V3(0, 0, 1), V3(0, 0, -1)}

\* Along coordinate j the box reaches from c - radius to c + radius.
Reaches(bx, j, c, radius) ==
    Le(bx.min[j], Sub(c[j], radius)) /\ Ge(bx.max[j], Add(c[j], radius))

ContainsDisks(bx, f, axis) ==
    \A j \in 1 .. 3 :
        axis[j] = Num(0) => /\ Reaches(bx, j, vec[f.base], f.radius0)
                            /\ Reaches(bx, j, Top(f), f.radius1)

\* C7: for a frustum along a coordinate axis, the box of getBoundingBox
\* contains both cap disks: along each perpendicular coordinate it reaches
\* from the cap centre - radius to the cap centre + radius.  It is stated for
\* radius0 > 0, where the division by radius0 (see C6) is harmless.
C7_BoxContainsCapDisks ==
    (/\ ret.op = "getBoundingBox"
     /\ AxisAligned(vec[fru[ret.args[1]].axis])
     /\ Gt(fru[ret.args[1]].radius0, Num(0)))
        => ContainsDisks(ret.box, fru[ret.args[1]], vec[fru[ret.args[1]].axis])

\* A call with pristine scratch vectors gives the same result.
SameAsFresh(n) ==
    /\ ret'.ref = n.ref
    /\ n.ref # 0 => vec'[n.ref] = n.vec[n.ref]

\* C9: the point an earlier call returned keeps its coordinates through every
\* later call (which was not handed that point as its target), and a call's
\* result is that of the same call made with fresh scratch vectors.
C9_CallsShareNoState ==
    [][(ret'.op = "intersectsConeFrustum" /\ calls' = calls + 1) =>
          /\ (held.ref # 0 /\ vec[held.ref] = held.at /\ ret'.args[2] # held.ref)
                => vec'[held.ref] = held.at
          /\ SameAsFresh(intersectsConeFrustum(
                 [vec EXCEPT ![D] = V3(0, 0, 0), ![target2] = V3(0, 0, 0),
                             ![u] = V3(0, 0, 0)],
                 ray', fru[ret'.args[1]], ret'.args[2]))]_vars

FrustumVectors(f) == <<vec[fru[f].base], vec[fru[f].axis]>>

PassedKept ==
    \A i \in {ret'.args[1], ret'.args[2]} \ {0} : vec'[i] = vec[i]

FrustaKept == \A f \in 1 .. Len(fru) : FrustumVectors(f)' = FrustumVectors(f)

CopiesKept ==
    \A a \in 1 .. Len(fru) :
        (/\ made[a].how = "copy"
         /\ made[a].from # a
         /\ ret'.args[1] \in {fru[made[a].from].base, fru[made[a].from].axis})
            => FrustumVectors(a)' = FrustumVectors(a)

\* C10: construction leaves the vectors passed to it unmodified; mutating a
\* caller's vector afterwards changes no frustum's base or axis; and after
\* a.copy(b), mutating b.base or b.axis does not change a.
C10_FrustumOwnsItsVectors ==
    [][/\ (ret'.op \in {"ConeFrustum", "fromCapsule"} /\ calls' = calls + 1)
            => PassedKept
       /\ (ret'.op = "set" /\ calls' = calls + 1 /\ ret'.args[1] \in mine)
            => FrustaKept
       /\ (ret'.op = "set" /\ calls' = calls + 1) => CopiesKept]_vars

====
